---- MODULE Spec2Model ----
(***************************************************************************)
(* Model of rosetta-docker (src/rosetta-docker/src/lib.rs): Env::new, its  *)
(* EnvBuilder stages (stop_container, run_container, run_node,             *)
(* run_connector), health, wait_for_http and Env::shutdown, run against a  *)
(* container engine whose calls may each succeed or fail.                  *)
(*                                                                         *)
(* Strings that the code inspects character-wise (container names) are     *)
(* sequences of tokens; durations are in milliseconds.                     *)
(***************************************************************************)
EXTENDS Integers, Sequences, FiniteSets, TLC

\* ---------------------------------------------------------------- bounds

\* The sleeps of the startup health poll are counted up to MaxPolls and
\* cyclically (1..MaxPolls) from there on: the loop in run_container has no
\* ceiling of its own, the engine may answer "starting" any number of times.
MaxPolls == 2

\* ------------------------------------------------------- inputs of Env::new

Prefixes == { <<"a">>, <<"b", "a">> }

Blockchains == { "bitcoin" }

Networks == { "regtest" }

\* node_uri.scheme of the configs tried: two of the HTTP family, one outside it.
Schemes == { "http", "wss", "tcp" }

\* Values of the two random bytes read as a little-endian u16.
Ports == { 0, 65535 }

\* node_uri.port of the config as the caller passes it in.
ConfigPort == 8545

ConfigHost == "node.example"

\* ------------------------------------------------------------ error values

NoErr == "<none>"

GetErrors == { "surf: connection refused", "surf: timed out" }

FactoryErrors == { "connector: rpc refused", "connector: handshake failed" }

\* ----------------------------------------------------------- string helpers

EndsWith(s, t) ==
    /\ Len(s) >= Len(t)
    /\ SubSeq(s, Len(s) - Len(t) + 1, Len(s)) = t

node_name(p, c) ==
    p \o <<"-node-", c.blockchain, "-", c.network>>

\* The name the engine records for a container created with name n.
EngineName(n) == <<"/">> \o n

\* ------------------------------------------------------- container engine

Ids(e) == { e[i].id : i \in 1..Len(e) }

Present(e, id) == id \in Ids(e)

Running(e, id) == \E i \in 1..Len(e) : e[i].id = id /\ e[i].state = "running"

RemoveId(e, id) == SelectSeq(e, LAMBDA c : c.id # id)

SetState(e, id, st) ==
    [i \in 1..Len(e) |-> IF e[i].id = id THEN [e[i] EXCEPT !.state = st] ELSE e[i]]

\* Variant of AutoRemove for a container created without auto_remove(true).
AutoRemoveOff(e, id) == FALSE

AutoRemove(e, id) == \E i \in 1..Len(e) : e[i].id = id /\ e[i].autoRemove

\* The engine's registry after a process exit of container id: an auto-remove
\* container is deleted by the engine, any other is kept as exited.
AfterExit(e, id) ==
    IF AutoRemove(e, id) THEN RemoveId(e, id) ELSE SetState(e, id, "exited")

\* A successful stop: a running container exits; one that is not running is
\* left as it is.
AfterStop(e, id) == IF Running(e, id) THEN AfterExit(e, id) ELSE e

FreshId(e) == IF Len(e) = 0 THEN 1 ELSE 1 + CHOOSE m \in Ids(e) : \A k \in Ids(e) : k <= m

NameTaken(e, n) ==
    \E i \in 1..Len(e) : \E k \in 1..Len(e[i].names) : e[i].names[k] = EngineName(n)

HasMatch(e, n) ==
    \E i \in 1..Len(e) : \E k \in 1..Len(e[i].names) : EndsWith(e[i].names[k], n)

\* ------------------------------------------------------------------ health

KnownStatus == { "none", "starting", "healthy", "unhealthy" }

\* Status strings the engine may put in state.health.status.
StatusStrings == KnownStatus \cup { "degraded" }

\* state, state.health or state.health.status absent in the inspect answer.
NoStatus == "<no status>"

\* The inspect call itself failed.
InspectErr == "<inspect failed>"

\* What an inspect of container id can answer: a container the engine no
\* longer holds cannot be inspected.
InspectResults(e, id) ==
    IF Present(e, id) THEN StatusStrings \cup { NoStatus, InspectErr } ELSE { InspectErr }

HOk(v) == [ok |-> TRUE, val |-> v, err |-> NoErr]

HErr(m) == [ok |-> FALSE, val |-> "", err |-> m]

\* Variant of ParseStatus with a catch-all arm that maps to a variant.
ParseStatusLenient(status) ==
    CASE status = "none" -> HOk("None")
      [] status = "starting" -> HOk("Starting")
      [] status = "healthy" -> HOk("Healthy")
      [] status = "unhealthy" -> HOk("Unhealthy")
      [] OTHER -> HOk("None")

\* The match on status.as_str(): Ok(Some(variant)) for the four known strings,
\* an error for any other.
ParseStatus(status) ==
    CASE status = "none" -> HOk("None")
      [] status = "starting" -> HOk("Starting")
      [] status = "healthy" -> HOk("Healthy")
      [] status = "unhealthy" -> HOk("Unhealthy")
      [] OTHER -> HErr("unknown status " \o status)

\* health(container) on the raw answer of inspect; val "NoStatus" is Ok(None).
health(raw) ==
    IF raw = InspectErr THEN HErr("inspect failed")
    ELSE IF raw = NoStatus THEN HOk("NoStatus")
    ELSE ParseStatus(raw)

\* --------------------------------------------------------- backoff schedules

\* Variant of MAX_RETRIES, off by one.
MAX_RETRIES_PlusOne == 10 + 1

\* const MAX_RETRIES of run_connector, the argument of .take().
MAX_RETRIES == 10

FibInitial == 1000

FibMaxDelay == 5000

\* FibonacciBackoff::from_millis(1000).max_delay(5 s).take(MAX_RETRIES)
FibInit == [curr |-> FibInitial, next |-> FibInitial, taken |-> 0]

\* Variant of FibStep without max_delay.
FibStepUncapped(s) ==
    [delay |-> s.curr,
     st |-> [curr |-> s.next, next |-> s.curr + s.next, taken |-> s.taken + 1]]

\* Iterator::next of the Fibonacci strategy (factor 1) under .take(): the
\* capped branch returns the cap without advancing the pair.
FibStep(s) ==
    IF s.curr > FibMaxDelay
    THEN [delay |-> FibMaxDelay, st |-> [s EXCEPT !.taken = s.taken + 1]]
    ELSE [delay |-> s.curr,
          st |-> [curr |-> s.next, next |-> s.curr + s.next, taken |-> s.taken + 1]]

\* Variant of HttpRetries, off by one.
HttpRetries_PlusOne == 20 + 1

\* .take(20) of wait_for_http: the number of delays the strategy yields.
HttpRetries == 20

ExpBase == 2

ExpFactor == 100

ExpMaxDelay == 2000

\* ExponentialBackoff::from_millis(2).factor(100).max_delay(2 s).take(20)
ExpInit == [current |-> ExpBase, taken |-> 0]

\* Variant of ExpStep that leaves the factor out.
ExpStepNoFactor(s) ==
    IF s.current > ExpMaxDelay
    THEN [delay |-> ExpMaxDelay, st |-> [s EXCEPT !.taken = s.taken + 1]]
    ELSE [delay |-> s.current,
          st |-> [current |-> s.current * ExpBase, taken |-> s.taken + 1]]

\* Variant of ExpStep without the .take(20): the delays are not counted.
ExpStepNoTake(s) ==
    IF s.current * ExpFactor > ExpMaxDelay
    THEN [delay |-> ExpMaxDelay, st |-> s]
    ELSE [delay |-> s.current * ExpFactor,
          st |-> [current |-> s.current * ExpBase, taken |-> s.taken]]

\* Iterator::next of the exponential strategy under .take(): current * factor,
\* capped; the capped branch returns the cap without advancing current.
ExpStep(s) ==
    IF s.current * ExpFactor > ExpMaxDelay
    THEN [delay |-> ExpMaxDelay, st |-> [s EXCEPT !.taken = s.taken + 1]]
    ELSE [delay |-> s.current * ExpFactor,
          st |-> [current |-> s.current * ExpBase, taken |-> s.taken + 1]]

\* Duration::from_secs(15) of the non-HTTP readiness wait.
NodeCrashWait == 15000

\* ---------------------------------------------------- wait_for_http errors

\* Variant of Classify that takes a failed health check for transient.
ClassifyUnhealthyOnly(h, e) ==
    IF h.ok /\ h.val = "Unhealthy"
    THEN [tag |-> "ContainerExited", inner |-> e]
    ELSE [tag |-> "Retry", inner |-> e]

\* The closure's error: ContainerExited when the health check after a failed
\* GET errs or reports Unhealthy, Retry otherwise; both carry the GET error.
Classify(h, e) ==
    IF ~h.ok \/ h.val = "Unhealthy"
    THEN [tag |-> "ContainerExited", inner |-> e]
    ELSE [tag |-> "Retry", inner |-> e]

\* The retry condition handed to RetryIf.
ShouldRetry(re) == re.tag = "Retry"

\* The map_err after RetryIf: both variants unwrap to the error they carry.
MapErr(re) == re.inner

\* ------------------------------------------------------------------- state

VARIABLES
    pc,          \* position of the caller in Env::new / shutdown
    prefix,      \* Env::new's prefix argument
    config,      \* the BlockchainConfig (node_uri.port is injected by Env::new)
    engine,      \* the engine's container list, in the order list() returns it
    target,      \* stop_container: id of the stale container found (0: none)
    node,        \* id of the container this run created (0: none)
    result,      \* what Env::new returned
    pendingErr,  \* run_node: maybe_error while the best-effort stop runs
    shut,        \* what shutdown returned
    logTask,     \* the spawned log-forwarding task
    polls,       \* startup poll: 100 ms sleeps of the loop while it runs (cyclic)
    lastStatus,  \* raw answer of the inspect the caller is acting on
    lastHealth,  \* what health() returned for it
    unknownAt,   \* where an unrecognised status string was inspected
    nodeWait,    \* milliseconds slept by the non-HTTP readiness branch
    url,         \* the URL handed to wait_for_http
    exp,         \* wait_for_http: the retry strategy iterator
    gets,        \* wait_for_http: GET requests issued
    getErr,      \* wait_for_http: `err` of the closure, while it is live
    retryErr,    \* wait_for_http: RetryError the attempt ended with
    httpDelay,   \* wait_for_http: the delay RetryIf is about to sleep
    httpSleeps,  \* wait_for_http: the sleeps done, in order
    httpOutcome, \* wait_for_http: how it ended
    fib,         \* run_connector: the retry strategy iterator
    delay,       \* run_connector: the loop variable
    calls,       \* run_connector: factory calls made
    fails,       \* run_connector: factory calls that failed
    connResult,  \* run_connector: the local `result`
    connSleeps,  \* run_connector: the sleeps done, in order
    connOutcome, \* run_connector: how it ended
    stale,       \* stop_container: how far the teardown of the stale container got
    nodeStop,    \* outcome of the stop the caller issued on the container it created
    ready,       \* how run_node's readiness stage ended
    startedPort, \* the port in the options the container was created with
    factoryPort, \* node_uri.port of the config of the latest factory call
    lastErr      \* the error the latest factory call returned

cfgVars == <<prefix, config>>

healthVars == <<lastStatus, lastHealth, unknownAt>>

httpVars == <<url, exp, gets, getErr, retryErr, httpDelay, httpSleeps, httpOutcome>>

connVars == <<fib, delay, calls, fails, connResult, connSleeps, connOutcome>>

\* What the calls were seen to do, kept to state the properties.
obsVars == <<stale, nodeStop, ready, startedPort, factoryPort, lastErr>>

vars == <<pc, cfgVars, engine, target, node, result, pendingErr, shut, logTask,
          polls, healthVars, nodeWait, httpVars, connVars, obsVars>>

Pending == [tag |-> "Pending", err |-> NoErr]

Ok == [tag |-> "Ok", err |-> NoErr]

Err(e) == [tag |-> "Err", err |-> e]

NotYet == "<not yet>"

NoRetryErr == [tag |-> "<none>", inner |-> NoErr]

NoUrl == [scheme |-> "", host |-> "", port |-> 0]

\* No port yet (ports are 0..65535).
NoPort == 0 - 1

\* A container an earlier run of Env::new left in the engine: created by
\* run_node (auto-remove) and either never started or still running.
Leftover(i, p, c, st) ==
    [id |-> i, names |-> <<EngineName(node_name(p, c))>>, state |-> st, autoRemove |-> TRUE]

\* What the engine may hold when Env::new is called: nothing, one leftover, or
\* two leftovers of runs with different prefixes, in any list order.
EngineLists(c) ==
    { <<>> }
    \cup { <<Leftover(1, p, c, st)>> : p \in Prefixes, st \in { "created", "running" } }
    \cup { <<Leftover(1, pq[1], c, "running"), Leftover(2, pq[2], c, st)>> :
             pq \in { x \in Prefixes \X Prefixes : x[1] # x[2] },
             st \in { "created", "running" } }

\* Nothing has been called yet.
InitLocals ==
    /\ target = 0
    /\ node = 0
    /\ result = Pending
    /\ pendingErr = NoErr
    /\ shut = Pending
    /\ logTask = "none"
    /\ polls = 0
    /\ lastStatus = NotYet
    /\ lastHealth = HOk("NoStatus")
    /\ unknownAt = "nowhere"
    /\ nodeWait = 0
    /\ url = NoUrl
    /\ exp = ExpInit
    /\ gets = 0
    /\ getErr = NoErr
    /\ retryErr = NoRetryErr
    /\ httpDelay = 0
    /\ httpSleeps = <<>>
    /\ httpOutcome = "none"
    /\ fib = FibInit
    /\ delay = 0
    /\ calls = 0
    /\ fails = 0
    /\ connResult = Err("failed to start connector")
    /\ connSleeps = <<>>
    /\ connOutcome = "none"
    /\ stale = "none"
    /\ nodeStop = "none"
    /\ ready = "none"
    /\ startedPort = NoPort
    /\ factoryPort = NoPort
    /\ lastErr = NoErr

Init ==
    /\ pc = "new"
    /\ prefix \in Prefixes
    /\ config \in { [blockchain |-> b, network |-> n,
                     node_uri |-> [scheme |-> s, host |-> ConfigHost, port |-> ConfigPort]] :
                    b \in Blockchains, n \in Networks, s \in Schemes }
    /\ engine \in EngineLists(config)
    /\ InitLocals

\* ----------------------------------------------------------------- helpers

\* Env::new returns r.
Return(r) == result' = r /\ pc' = "done"

\* One call of health(container): the engine answers raw.
HealthCall(raw, site) ==
    /\ lastStatus' = raw
    /\ lastHealth' = health(raw)
    /\ unknownAt' = IF raw \in StatusStrings \ KnownStatus /\ unknownAt = "nowhere"
                    THEN site ELSE unknownAt

\* The caller has matched on the health result and moved on: the temporary
\* is dropped.
DropHealth ==
    /\ lastStatus' = NotYet
    /\ lastHealth' = HOk("NoStatus")
    /\ UNCHANGED unknownAt

\* Index of the first listed container one of whose names ends with n.
FirstMatch(e, n) ==
    CHOOSE i \in 1..Len(e) :
        /\ \E k \in 1..Len(e[i].names) : EndsWith(e[i].names[k], n)
        /\ \A j \in 1..(i - 1) : \A k \in 1..Len(e[j].names) : ~EndsWith(e[j].names[k], n)

\* Variant of ProbeUrl built from the node URI as it was before the port was injected.
ProbeUrlConfigPort(uri) == [scheme |-> "http", host |-> "127.0.0.1", port |-> ConfigPort]

\* Variant of ProbeUrl without the with_scheme("http") call.
ProbeUrlKeepScheme(uri) == [scheme |-> uri.scheme, host |-> "127.0.0.1", port |-> uri.port]

\* with_scheme("http").with_host("127.0.0.1") of the node URI.
ProbeUrl(uri) == [scheme |-> "http", host |-> "127.0.0.1", port |-> uri.port]

IsHttpFamily(scheme) == scheme \in { "http", "https", "ws", "wss" }

\* ------------------------------------------------------------------ Env::new

\* Env::new up to the injection of the random port: EnvBuilder::new may fail;
\* otherwise random_port() is written into config.node_uri.port.
EnvNew ==
    /\ pc = "new"
    /\ \/ /\ Return(Err("docker endpoint"))
          /\ UNCHANGED config
       \/ /\ \E port \in Ports : config' = [config EXCEPT !.node_uri.port = port]
          /\ pc' = "list"
          /\ UNCHANGED result
    /\ UNCHANGED <<prefix, engine, target, node, pendingErr, shut, logTask, polls,
                   healthVars, nodeWait, httpVars, connVars>>
    /\ UNCHANGED obsVars

\* stop_container: the list call and the search for the first container one
\* of whose names ends with the derived name.
StopContainerList ==
    /\ pc = "list"
    /\ \/ /\ Return(Err("list failed"))
          /\ UNCHANGED <<target, stale>>
       \/ /\ HasMatch(engine, node_name(prefix, config))
          /\ target' = engine[FirstMatch(engine, node_name(prefix, config))].id
          /\ stale' = "found"
          /\ pc' = "stale_stop"
          /\ UNCHANGED result
       \/ /\ ~HasMatch(engine, node_name(prefix, config))
          /\ stale' = "absent"
          /\ pc' = "create"
          /\ UNCHANGED <<target, result>>
    /\ UNCHANGED <<cfgVars, engine, node, pendingErr, shut, logTask, polls,
                   healthVars, nodeWait, httpVars, connVars>>
    /\ UNCHANGED <<nodeStop, ready, startedPort, factoryPort, lastErr>>

\* stop_container: container.stop(..).await? on the container found.
StopContainerStop ==
    /\ pc = "stale_stop"
    /\ \/ /\ Return(Err("stop failed"))
          /\ stale' = "stop failed"
          /\ UNCHANGED engine
       \/ /\ Present(engine, target)
          /\ engine' = AfterStop(engine, target)
          /\ stale' = "stopped"
          /\ pc' = "stale_delete"
          /\ UNCHANGED result
    /\ UNCHANGED <<cfgVars, target, node, pendingErr, shut, logTask, polls,
                   healthVars, nodeWait, httpVars, connVars>>
    /\ UNCHANGED <<nodeStop, ready, startedPort, factoryPort, lastErr>>

\* Variant of StopContainerDelete whose delete is followed by `?`.
StopContainerDeleteStrict ==
    /\ pc = "stale_delete"
    /\ \/ /\ Present(engine, target)
          /\ ~Running(engine, target)
          /\ engine' = RemoveId(engine, target)
          /\ stale' = "deleted"
          /\ pc' = "create"
          /\ UNCHANGED result
       \/ /\ stale' = "delete failed"
          /\ Return(Err("delete failed"))
          /\ UNCHANGED engine
    /\ UNCHANGED <<cfgVars, target, node, pendingErr, shut, logTask, polls,
                   healthVars, nodeWait, httpVars, connVars>>
    /\ UNCHANGED <<nodeStop, ready, startedPort, factoryPort, lastErr>>

\* stop_container: container.delete().await.ok(), then break.
StopContainerDelete ==
    /\ pc = "stale_delete"
    /\ \/ /\ Present(engine, target)
          /\ ~Running(engine, target)
          /\ engine' = RemoveId(engine, target)
          /\ stale' = "deleted"
       \/ /\ stale' = "delete failed"
          /\ UNCHANGED engine
    /\ pc' = "create"
    /\ UNCHANGED <<cfgVars, target, node, result, pendingErr, shut, logTask, polls,
                   healthVars, nodeWait, httpVars, connVars>>
    /\ UNCHANGED <<nodeStop, ready, startedPort, factoryPort, lastErr>>

\* run_node's options and run_container's create call: the engine refuses a
\* name it already holds.
RunContainerCreate ==
    /\ pc = "create"
    /\ \/ /\ NameTaken(engine, node_name(prefix, config))
          /\ Return(Err("create: name conflict"))
          /\ UNCHANGED <<engine, node, startedPort>>
       \/ /\ Return(Err("create failed"))
          /\ UNCHANGED <<engine, node, startedPort>>
       \/ /\ ~NameTaken(engine, node_name(prefix, config))
          /\ node' = FreshId(engine)
          /\ engine' = Append(engine,
                 [id |-> FreshId(engine),
                  names |-> <<EngineName(node_name(prefix, config))>>,
                  state |-> "created", autoRemove |-> TRUE])
          /\ startedPort' = config.node_uri.port
          /\ pc' = "start"
          /\ UNCHANGED result
    /\ UNCHANGED <<cfgVars, target, pendingErr, shut, logTask, polls,
                   healthVars, nodeWait, httpVars, connVars>>
    /\ UNCHANGED <<stale, nodeStop, ready, factoryPort, lastErr>>

\* run_container: container.start().await?, then the spawn of the log task.
RunContainerStart ==
    /\ pc = "start"
    /\ \/ /\ Return(Err("start failed"))
          /\ UNCHANGED <<engine, logTask>>
       \/ /\ engine' = SetState(engine, node, "running")
          /\ logTask' = "running"
          /\ pc' = "poll"
          /\ UNCHANGED result
    /\ UNCHANGED <<cfgVars, target, node, pendingErr, shut, polls,
                   healthVars, nodeWait, httpVars, connVars>>
    /\ UNCHANGED obsVars

\* run_container: one turn of the startup health loop (with its 100 ms sleep);
\* on break run_container returns and run_node picks the readiness strategy.
RunContainerPoll ==
    /\ pc = "poll"
    /\ \E raw \in InspectResults(engine, node) :
        /\ HealthCall(raw, "poll")
        /\ LET h == health(raw) IN
           IF ~h.ok THEN
               /\ Return(Err(h.err))
               /\ UNCHANGED <<polls, url>>
           ELSE IF h.val = "Unhealthy" THEN
               /\ Return(Err("healthcheck reports unhealthy"))
               /\ UNCHANGED <<polls, url>>
           ELSE IF h.val = "Starting" THEN
               /\ polls' = IF polls < MaxPolls THEN polls + 1 ELSE 1
               /\ pc' = "poll"
               /\ UNCHANGED <<result, url>>
           ELSE IF IsHttpFamily(config.node_uri.scheme) THEN
               /\ url' = ProbeUrl(config.node_uri)
               /\ pc' = "get"
               /\ polls' = 0
               /\ UNCHANGED result
           ELSE
               /\ pc' = "node_wait"
               /\ polls' = 0
               /\ UNCHANGED <<result, url>>
    /\ UNCHANGED <<cfgVars, engine, target, node, pendingErr, shut, logTask,
                   nodeWait, exp, gets, getErr, retryErr, httpDelay, httpSleeps,
                   httpOutcome, connVars>>
    /\ UNCHANGED obsVars

\* run_connector is entered: the for loop takes the first delay of the strategy.
EnterConnector ==
    IF fib.taken < MAX_RETRIES
    THEN /\ pc' = "connector"
         /\ delay' = FibStep(fib).delay
         /\ fib' = FibStep(fib).st
         /\ UNCHANGED <<result, connOutcome>>
    ELSE /\ pc' = "conn_stop"
         /\ connOutcome' = "failed"
         /\ UNCHANGED <<result, delay, fib>>

\* run_node, non-HTTP branch: the fixed sleep.
RunNodeWait ==
    /\ pc = "node_wait"
    /\ nodeWait' = nodeWait + NodeCrashWait
    /\ pc' = "nonhttp_health"
    /\ DropHealth
    /\ UNCHANGED <<cfgVars, engine, target, node, result, pendingErr, shut, logTask,
                   polls, httpVars, connVars>>
    /\ UNCHANGED obsVars

\* run_node, non-HTTP branch: health(&container).await.err().
RunNodeHealth ==
    /\ pc = "nonhttp_health"
    /\ \E raw \in InspectResults(engine, node) :
        /\ HealthCall(raw, "nonhttp")
        /\ IF ~health(raw).ok
           THEN /\ pendingErr' = health(raw).err
                /\ ready' = "failed"
                /\ pc' = "node_stop"
                /\ UNCHANGED <<result, fib, delay, connOutcome>>
           ELSE /\ ready' = "ok"
                /\ EnterConnector
                /\ UNCHANGED pendingErr
    /\ UNCHANGED <<cfgVars, engine, target, node, shut, logTask, polls, nodeWait,
                   httpVars, calls, fails, connResult, connSleeps>>
    /\ UNCHANGED <<stale, nodeStop, startedPort, factoryPort, lastErr>>

\* wait_for_http: one surf::get(url).
WaitForHttpGet ==
    /\ pc = "get"
    /\ gets' = gets + 1
    /\ \/ /\ httpOutcome' = "ok"
          /\ ready' = "ok"
          /\ EnterConnector
          /\ UNCHANGED getErr
       \/ /\ \E e \in GetErrors : getErr' = e
          /\ pc' = "get_health"
          /\ UNCHANGED <<result, httpOutcome, fib, delay, connOutcome, ready>>
    /\ DropHealth
    /\ UNCHANGED <<cfgVars, engine, target, node, pendingErr, shut, logTask, polls,
                   nodeWait, url, exp, retryErr, httpDelay, httpSleeps,
                   calls, fails, connResult, connSleeps>>
    /\ UNCHANGED <<stale, nodeStop, startedPort, factoryPort, lastErr>>

\* wait_for_http: the health check after a failed GET and RetryIf's decision:
\* return the error when the condition refuses it or the strategy is used up,
\* else take the next delay.
WaitForHttpHealth ==
    /\ pc = "get_health"
    /\ \E raw \in InspectResults(engine, node) :
        /\ HealthCall(raw, "get")
        /\ LET re == Classify(health(raw), getErr) IN
           /\ retryErr' = re
           /\ getErr' = NoErr
           /\ IF ~ShouldRetry(re) THEN
                  /\ httpOutcome' = "failfast"
                  /\ pendingErr' = MapErr(re)
                  /\ ready' = "failed"
                  /\ pc' = "node_stop"
                  /\ UNCHANGED <<exp, httpDelay>>
              ELSE IF exp.taken >= HttpRetries THEN
                  /\ httpOutcome' = "exhausted"
                  /\ pendingErr' = MapErr(re)
                  /\ ready' = "failed"
                  /\ pc' = "node_stop"
                  /\ UNCHANGED <<exp, httpDelay>>
              ELSE
                  /\ httpDelay' = ExpStep(exp).delay
                  /\ exp' = ExpStep(exp).st
                  /\ pc' = "http_sleep"
                  /\ UNCHANGED <<httpOutcome, pendingErr, ready>>
    /\ UNCHANGED <<cfgVars, engine, target, node, result, shut, logTask, polls,
                   nodeWait, url, gets, httpSleeps, connVars>>
    /\ UNCHANGED <<stale, nodeStop, startedPort, factoryPort, lastErr>>

\* wait_for_http: RetryIf sleeps the delay, then attempts again.
WaitForHttpSleep ==
    /\ pc = "http_sleep"
    /\ httpSleeps' = Append(httpSleeps, httpDelay)
    /\ httpDelay' = 0
    /\ retryErr' = NoRetryErr
    /\ pc' = "get"
    /\ DropHealth
    /\ UNCHANGED <<cfgVars, engine, target, node, result, pendingErr, shut, logTask,
                   polls, nodeWait, url, exp, gets, getErr, httpOutcome, connVars>>
    /\ UNCHANGED obsVars

\* A best-effort stop of the container this run created (`let _ = ...stop`).
BestEffortStop ==
    \/ /\ Present(engine, node)
       /\ engine' = AfterStop(engine, node)
       /\ nodeStop' = "ok"
    \/ /\ nodeStop' = "failed"
       /\ UNCHANGED engine

\* Variant of RunNodeStop whose stop is followed by `?`.
RunNodeStopStrict ==
    /\ pc = "node_stop"
    /\ \/ /\ Present(engine, node)
          /\ engine' = AfterStop(engine, node)
          /\ nodeStop' = "ok"
          /\ Return(Err(pendingErr))
       \/ /\ nodeStop' = "failed"
          /\ Return(Err("stop failed"))
          /\ UNCHANGED engine
    /\ UNCHANGED <<cfgVars, target, node, pendingErr, shut, logTask, polls,
                   healthVars, nodeWait, httpVars, connVars>>
    /\ UNCHANGED <<stale, ready, startedPort, factoryPort, lastErr>>

\* run_node: the readiness stage failed; stop the container, return the error.
RunNodeStop ==
    /\ pc = "node_stop"
    /\ BestEffortStop
    /\ Return(Err(pendingErr))
    /\ UNCHANGED <<cfgVars, target, node, pendingErr, shut, logTask, polls,
                   healthVars, nodeWait, httpVars, connVars>>
    /\ UNCHANGED <<stale, ready, startedPort, factoryPort, lastErr>>

\* Variant of StoreError that keeps the first error of the loop.
StoreErrorKeepFirst(prev, e) ==
    IF prev = Err("failed to start connector") THEN Err(e) ELSE prev

\* run_connector: `result = Err(error)` on a failed call.
StoreError(prev, e) == Err(e)

\* run_connector: one start_connector(config.clone()).await.
RunConnectorCall ==
    /\ pc = "connector"
    /\ calls' = calls + 1
    /\ factoryPort' = config.node_uri.port
    /\ \/ /\ connResult' = Ok
          /\ connOutcome' = "ok"
          /\ lastErr' = NoErr
          /\ Return(Ok)
          /\ UNCHANGED fails
       \/ /\ \E e \in FactoryErrors :
                /\ connResult' = StoreError(connResult, e)
                /\ lastErr' = e
          /\ fails' = fails + 1
          /\ pc' = "conn_sleep"
          /\ UNCHANGED <<result, connOutcome>>
    /\ DropHealth
    /\ UNCHANGED <<cfgVars, engine, target, node, pendingErr, shut, logTask, polls,
                   nodeWait, httpVars, fib, delay, connSleeps>>
    /\ UNCHANGED <<stale, nodeStop, ready, startedPort>>

\* run_connector: the sleep after a failed call, then `continue`: the loop
\* takes the next delay, or ends when the strategy is used up.
RunConnectorSleep ==
    /\ pc = "conn_sleep"
    /\ connSleeps' = Append(connSleeps, delay)
    /\ EnterConnector
    /\ UNCHANGED <<cfgVars, engine, target, node, pendingErr, shut, logTask, polls,
                   healthVars, nodeWait, httpVars, calls, fails, connResult>>
    /\ UNCHANGED obsVars

\* Env::new: run_connector failed; stop the node, return its error.
EnvNewStop ==
    /\ pc = "conn_stop"
    /\ BestEffortStop
    /\ Return(connResult)
    /\ UNCHANGED <<cfgVars, target, node, pendingErr, shut, logTask, polls,
                   healthVars, nodeWait, httpVars, connVars>>
    /\ UNCHANGED <<stale, ready, startedPort, factoryPort, lastErr>>

\* Env::shutdown on the Env a successful Env::new returned.
Shutdown ==
    /\ pc = "done"
    /\ result = Ok
    /\ \/ /\ Present(engine, node)
          /\ engine' = AfterStop(engine, node)
          /\ nodeStop' = "ok"
          /\ shut' = Ok
       \/ /\ nodeStop' = "failed"
          /\ shut' = Err("stop failed")
          /\ UNCHANGED engine
    /\ pc' = "closed"
    /\ UNCHANGED <<cfgVars, target, node, result, pendingErr, logTask, polls,
                   healthVars, nodeWait, httpVars, connVars>>
    /\ UNCHANGED <<stale, ready, startedPort, factoryPort, lastErr>>

\* ------------------------------------------------------------- environment

\* Variant of LogTaskStep in which the panic of the log task takes the caller
\* down with it.
LogTaskStepAbort ==
    /\ logTask = "running"
    /\ \/ /\ Running(engine, node)
          /\ \/ /\ logTask' = "running"
                /\ UNCHANGED <<pc, result>>
             \/ /\ logTask' = "panicked"
                /\ Return(Err("log task panicked"))
       \/ /\ ~Running(engine, node)
          /\ logTask' = "ended"
          /\ UNCHANGED <<pc, result>>
    /\ UNCHANGED <<cfgVars, engine, target, node, pendingErr, shut, polls,
                   healthVars, nodeWait, httpVars, connVars>>
    /\ UNCHANGED obsVars

\* The log task takes the next item of the log stream: a stdout or stderr
\* chunk or a stream error is logged, a stdin chunk hits unreachable!(), and
\* the end of the stream (the container is gone) ends the task.
LogTaskStep ==
    /\ logTask = "running"
    /\ \/ /\ Running(engine, node)
          /\ \E chunk \in { "StdOut", "StdErr", "Err", "StdIn" } :
                logTask' = IF chunk = "StdIn" THEN "panicked" ELSE "running"
       \/ /\ ~Running(engine, node)
          /\ logTask' = "ended"
    /\ UNCHANGED <<pc, cfgVars, engine, target, node, result, pendingErr, shut, polls,
                   healthVars, nodeWait, httpVars, connVars>>
    /\ UNCHANGED obsVars

\* The node process exits by itself (a crash on bad arguments, say).
NodeExits ==
    /\ node # 0
    /\ Running(engine, node)
    /\ engine' = AfterExit(engine, node)
    /\ UNCHANGED <<pc, cfgVars, target, node, result, pendingErr, shut, logTask, polls,
                   healthVars, nodeWait, httpVars, connVars>>
    /\ UNCHANGED obsVars

Next ==
    \/ EnvNew
    \/ StopContainerList
    \/ StopContainerStop
    \/ StopContainerDelete
    \/ RunContainerCreate
    \/ RunContainerStart
    \/ RunContainerPoll
    \/ RunNodeWait
    \/ RunNodeHealth
    \/ WaitForHttpGet
    \/ WaitForHttpHealth
    \/ WaitForHttpSleep
    \/ RunNodeStop
    \/ RunConnectorCall
    \/ RunConnectorSleep
    \/ EnvNewStop
    \/ Shutdown
    \/ LogTaskStep
    \/ NodeExits

Spec == Init /\ [][Next]_vars

\* A step of Env::new: the call it is waiting for returns.
EnvNewStep ==
    \/ EnvNew
    \/ StopContainerList
    \/ StopContainerStop
    \/ StopContainerDelete
    \/ RunContainerCreate
    \/ RunContainerStart
    \/ RunContainerPoll
    \/ RunNodeWait
    \/ RunNodeHealth
    \/ WaitForHttpGet
    \/ WaitForHttpHealth
    \/ WaitForHttpSleep
    \/ RunNodeStop
    \/ RunConnectorCall
    \/ RunConnectorSleep
    \/ EnvNewStop

\* The log stream of a container that no longer runs yields None, and the
\* while-let loop of the log task ends.
LogStreamEnds ==
    /\ logTask = "running"
    /\ ~Running(engine, node)
    /\ logTask' = "ended"
    /\ UNCHANGED <<pc, cfgVars, engine, target, node, result, pendingErr, shut, polls,
                   healthVars, nodeWait, httpVars, connVars, obsVars>>

\* Env::new on an HTTP and on a non-HTTP node URI, with at most one leftover.
InitFair ==
    /\ pc = "new"
    /\ prefix = <<"a">>
    /\ config \in { [blockchain |-> b, network |-> n,
                     node_uri |-> [scheme |-> s, host |-> ConfigHost, port |-> ConfigPort]] :
                    b \in Blockchains, n \in Networks, s \in { "http", "tcp" } }
    /\ engine \in { <<>>, <<Leftover(1, prefix, config, "created")>> }
    /\ InitLocals

\* Every call Env::new awaits returns (each engine call, probe, sleep and
\* factory call is a future the runtime polls to completion), and the runtime
\* keeps polling the spawned log task, whose stream ends with its container.
FairSpec ==
    /\ InitFair
    /\ [][Next]_vars
    /\ WF_vars(EnvNewStep)
    /\ WF_vars(LogStreamEnds)

\* Every scheme run_node tells apart, and two it does not know.
AllSchemes == { "http", "https", "ws", "wss", "tcp", "ipc" }

\* Env::new over all the schemes, with one prefix and at most one leftover.
InitSchemes ==
    /\ pc = "new"
    /\ prefix = <<"a">>
    /\ config \in { [blockchain |-> b, network |-> n,
                     node_uri |-> [scheme |-> s, host |-> ConfigHost, port |-> ConfigPort]] :
                    b \in Blockchains, n \in Networks, s \in AllSchemes }
    /\ engine \in { <<>>, <<Leftover(1, prefix, config, "created")>> }
    /\ InitLocals

SchemeSpec == InitSchemes /\ [][Next]_vars

\* ------------------------------------------------------------------ claims

DerivedName == node_name(prefix, config)

Returned == pc \in { "done", "closed" }

\* The unhealthy answer came at the first inspect after start: no poll sleep,
\* no probe URL and no fixed wait had happened yet.
FirstInspectUnhealthy ==
    /\ pc = "done"
    /\ lastStatus = "unhealthy"
    /\ polls = 0
    /\ url = NoUrl
    /\ nodeWait = 0

\* C1 (rollback): once Env::new has returned an error after a successful
\* create, the engine holds no container with the derived name.
C1_Rollback ==
    (pc = "done" /\ result.tag = "Err" /\ node # 0) => ~NameTaken(engine, DerivedName)

\* C2 (scenario B): unhealthy at the first health inspection makes Env::new
\* return an error and leaves no container with the derived name.
C2_ScenarioB ==
    FirstInspectUnhealthy => (result.tag = "Err" /\ ~NameTaken(engine, DerivedName))

\* C3 (fail-fast abort): when the health check after a failed GET errs or
\* reports Unhealthy, wait_for_http ends at once, and no GET or sleep follows;
\* any other health result sends it to the next backoff sleep and GET while
\* the strategy still has a delay left.
C3_FailFast ==
    [][ /\ (pc = "get_health" /\ pc' # "get_health") =>
             IF ~lastHealth'.ok \/ lastHealth'.val = "Unhealthy"
             THEN /\ httpOutcome' = "failfast"
                  /\ pc' = "node_stop"
                  /\ gets' = gets
                  /\ httpSleeps' = httpSleeps
             ELSE Len(httpSleeps) < 20 => pc' = "http_sleep"
        /\ (pc = "http_sleep" /\ pc' # "http_sleep") =>
             /\ pc' = "get"
             /\ Len(httpSleeps') = Len(httpSleeps) + 1
        /\ httpOutcome = "failfast" =>
             /\ gets' = gets
             /\ httpSleeps' = httpSleeps
             /\ pc' \in { "node_stop", "done" }
      ]_vars

\* wait_for_http aborted on its second attempt, attempts to spare.
C3_Witness ==
    /\ httpOutcome = "failfast"
    /\ gets = 2
    /\ Len(httpSleeps) = 1
    /\ pc = "done"

\* C4 (error attribution): the error Env::new returns after a fail-fast abort
\* is not one a readiness timeout returns (those are the GET errors).
C4_Attribution ==
    (pc = "done" /\ httpOutcome = "failfast") => result.err \notin GetErrors

\* C5 (backoff termination): while every factory call has failed there are at
\* most 10 calls, and run_connector ends only after the 10th, with an error.
C5_TenAttempts ==
    /\ calls <= 10
    /\ fails = calls =>
         /\ connOutcome \in { "none", "failed" }
         /\ connOutcome = "failed" => (calls = 10 /\ pc \in { "conn_stop", "done" })
         /\ (pc = "done" /\ calls > 0) => result.tag = "Err"
    /\ (fails = calls /\ calls > 0 /\ calls < 10) => pc \in { "connector", "conn_sleep" }

\* The factory failed on every call and Env::new returned.
C5_Witness ==
    /\ connOutcome = "failed"
    /\ fails = 10
    /\ pc = "done"

C6_Schedule == <<1000, 1000, 2000, 3000, 5000, 5000, 5000, 5000, 5000, 5000>>

\* C6 (scenario C generalised): a factory that succeeds after k < 10 failures
\* is called k+1 times with k sleeps in between, the i-th being the i-th
\* Fibonacci delay (1 s, 1 s, 2 s, 3 s, then 5 s); nothing follows the success.
C6_ScenarioC ==
    /\ [](connOutcome = "ok" =>
            /\ fails < 10
            /\ calls = fails + 1
            /\ connSleeps = SubSeq(C6_Schedule, 1, fails)
            /\ result = Ok)
    /\ [][connOutcome = "ok" => (calls' = calls /\ connSleeps' = connSleeps)]_vars

\* Three failures, then success.
C6_Witness ==
    /\ connOutcome = "ok"
    /\ fails = 3
    /\ connSleeps = <<1000, 1000, 2000>>
    /\ pc = "done"

\* C7 as stated: at most 20 GETs, the timeout coming after the 20th.
C7_AtMost20 ==
    /\ gets <= 20
    /\ httpOutcome = "exhausted" => gets = 20

\* C7 (amended): wait_for_http issues at most 21 GETs, the first attempt and
\* 20 retries; the readiness failure comes after the 21st, with 20 sleeps.
C7_AtMost21 ==
    /\ gets <= 21
    /\ Len(httpSleeps) <= 20
    /\ httpOutcome = "exhausted" => (gets = 21 /\ Len(httpSleeps) = 20)
    /\ (pc = "get_health" /\ gets < 21) => httpOutcome = "none"

\* Every GET failed and no health check was fatal.
C7_Witness ==
    /\ httpOutcome = "exhausted"
    /\ pc = "done"
    /\ result.tag = "Err"

C8_Schedule == <<200, 400, 800, 1600>> \o [i \in 1..16 |-> 2000]

\* C8 (scenario A generalised): a first successful GET on attempt n <= 20
\* comes after exactly n-1 sleeps, the first n-1 delays of the exponential
\* schedule (200, 400, 800, 1600 ms, then the 2 s cap), and Env::new succeeds
\* when the connector then starts.
C8_ScenarioA ==
    /\ (httpOutcome = "ok" /\ gets <= 20) => httpSleeps = SubSeq(C8_Schedule, 1, gets - 1)
    /\ (httpOutcome = "ok" /\ connOutcome = "ok") => (Returned /\ result = Ok)

\* The node answered on probe attempt 3 and the connector started.
C8_Witness ==
    /\ httpOutcome = "ok"
    /\ gets = 3
    /\ httpSleeps = <<200, 400>>
    /\ result = Ok
    /\ pc = "done"

\* C9 (unknown status): health() of an unrecognised status string is an
\* error, and a run of Env::new that inspected one never reaches the
\* connector and returns an error.
C9_UnknownFatal ==
    /\ \A st \in StatusStrings \ { "none", "starting", "healthy", "unhealthy" } :
          ~health(st).ok
    /\ lastStatus \in StatusStrings \ { "none", "starting", "healthy", "unhealthy" } =>
          ~lastHealth.ok
    /\ unknownAt # "nowhere" =>
          /\ pc \in { "node_stop", "done" }
          /\ calls = 0
          /\ connOutcome = "none"
          /\ pc = "done" => result.tag = "Err"

\* "degraded" was inspected by the non-HTTP readiness check.
C9_Witness ==
    /\ unknownAt = "nonhttp"
    /\ lastStatus = "degraded"
    /\ pc = "done"
    /\ result.tag = "Err"

\* C10 (idempotent setup): when create is called, stale teardown having
\* stopped and removed the container it found, no container with the derived
\* name is in the engine.
C10_NoCollision ==
    (pc = "create" /\ ~Present(engine, target)) => ~NameTaken(engine, DerivedName)

\* C11: once shutdown() has returned success, the stop call it issued on the
\* Env's container succeeded, and the engine holds that container no more, in
\* this and in every later state (the stop ends the node, auto-remove deletes
\* it).
C11_ShutdownPost ==
    shut = Ok => (nodeStop = "ok" /\ ~Present(engine, node))

C11_Witness == pc = "closed" /\ shut = Ok /\ node # 0 /\ ~Present(engine, node)

\* C12: for a node URI of scheme http, https, ws or wss the readiness stage is
\* the HTTP wait, and the URL it probes is http://127.0.0.1:port with the port
\* of the node URI, which is the injected port the container was created with;
\* for any other scheme the readiness stage is the fixed wait, no URL is built
\* and no GET is issued.
C12_SchemeRewrite ==
    LET uri == config.node_uri
        httpLike == uri.scheme \in { "http", "https", "ws", "wss" }
    IN  /\ pc \in { "get", "get_health", "http_sleep" } => httpLike
        /\ pc \in { "node_wait", "nonhttp_health" } => ~httpLike
        /\ (httpLike /\ (gets > 0 \/ pc = "get")) =>
              /\ url = [scheme |-> "http", host |-> "127.0.0.1", port |-> uri.port]
              /\ url.port = startedPort
        /\ ~httpLike => (url = NoUrl /\ gets = 0 /\ httpSleeps = <<>>)

\* wss://node.example:65535 was probed as http://127.0.0.1:65535.
C12_Witness ==
    /\ config.node_uri = [scheme |-> "wss", host |-> ConfigHost, port |-> 65535]
    /\ gets > 0
    /\ url = [scheme |-> "http", host |-> "127.0.0.1", port |-> 65535]

\* C13: for a scheme outside http/https/ws/wss the readiness stage sleeps 15 s
\* once and checks health once, and when that check errs or reports Unhealthy
\* the run goes to the stop of the container and the error return, without
\* any factory call.
C13_NonHttpFatal ==
    /\ nodeWait \in { 0, 15000 }
    /\ (nodeWait > 0 /\ lastStatus # NotYet /\
         (~lastHealth.ok \/ lastHealth.val = "Unhealthy")) =>
          /\ pc \in { "node_stop", "done" }
          /\ calls = 0
          /\ pc = "done" => (result.tag = "Err" /\ nodeStop # "none")

\* C14: when Env::new has returned after a failed readiness stage or a failed
\* connector start, a stop of the container it created was issued, and the
\* error returned is the error of that stage (the GET error, the error of the
\* non-HTTP health check, the error of the last factory call), also when the
\* stop failed.
C14_PrimaryError ==
    /\ (pc = "done" /\ ready = "failed") =>
          /\ nodeStop \in { "ok", "failed" }
          /\ result.tag = "Err"
          /\ result.err = pendingErr
          /\ IF url # NoUrl THEN result.err \in GetErrors
             ELSE ~lastHealth.ok /\ result.err = lastHealth.err
    /\ (pc = "done" /\ connOutcome = "failed") =>
          /\ nodeStop \in { "ok", "failed" }
          /\ result.tag = "Err"
          /\ result.err \in FactoryErrors

\* The HTTP wait failed, the stop failed too, and the GET error was returned.
C14_Witness ==
    /\ pc = "done"
    /\ ready = "failed"
    /\ nodeStop = "failed"
    /\ result.tag = "Err"
    /\ result.err \in GetErrors

\* C15: whenever create is about to be called or has been called, the list
\* query has been answered and, if it found a stale container, the stop and
\* the best-effort delete of that container have both completed; while the
\* teardown is still under way no container has been created; and the step
\* in which the stale delete fails goes on to create without returning.
C15_TeardownFirst ==
    /\ []((pc = "create" \/ node # 0 \/ startedPort # NoPort) =>
             stale \in { "absent", "deleted", "delete failed" })
    /\ [](stale \in { "found", "stopped" } =>
             (node = 0 /\ pc \in { "stale_stop", "stale_delete" }))
    /\ [][(stale # "delete failed" /\ stale' = "delete failed") =>
             (pc' = "create" /\ result' = Pending)]_vars

\* The stale delete failed and the replacement was created all the same.
C15_Witness ==
    /\ stale = "delete failed"
    /\ target # 0
    /\ node # 0
    /\ Present(engine, node)

\* C16: when every factory call has failed and Env::new has returned, the
\* error it returns is the error of the last factory call: not that of an
\* earlier call, not the placeholder run_connector starts with.
C16_LastError ==
    (pc = "done" /\ connOutcome = "failed") =>
        /\ lastErr \in FactoryErrors
        /\ connResult = Err(lastErr)
        /\ result = Err(lastErr)
        /\ result # Err("failed to start connector")

C16_Witness ==
    /\ pc = "done"
    /\ connOutcome = "failed"
    /\ fails = calls
    /\ calls > 1
    /\ result = Err(lastErr)

\* C17: every backoff sleep of run_connector is followed by another factory
\* call, so a run whose ten calls all fail has slept nine times when the
\* error is returned.
C17_SleepsBetween ==
    /\ [][Len(connSleeps') > Len(connSleeps) => pc' = "connector"]_vars
    /\ [](connOutcome = "failed" => (calls = 10 /\ Len(connSleeps) = 9))

\* C18: the connector factory is called only after stale cleanup, container
\* launch, the startup poll and the readiness stage have all returned
\* success; when Env::new has returned without the readiness stage having
\* succeeded, the factory was never called; and the config of every factory
\* call carries the injected port, the one the container was created with
\* and, on the HTTP path, the one that was probed.
C18_StageOrder ==
    /\ [][calls' > calls => (ready = "ok" /\ pc = "connector")]_vars
    /\ []((calls > 0 \/ pc \in { "connector", "conn_sleep", "conn_stop" }) =>
             /\ ready = "ok"
             /\ stale \in { "absent", "deleted", "delete failed" }
             /\ node # 0
             /\ startedPort = config.node_uri.port)
    /\ []((Returned /\ ready # "ok") => (calls = 0 /\ factoryPort = NoPort))
    /\ [](calls > 0 =>
             /\ factoryPort = startedPort
             /\ url # NoUrl => url.port = factoryPort)

\* The factory was called after an HTTP wait on the injected port 65535.
C18_Witness ==
    /\ calls > 0
    /\ ready = "ok"
    /\ factoryPort = 65535
    /\ startedPort = 65535
    /\ url.port = 65535

\* C19: the log task is spawned by the step that starts the container; from
\* then on every change of the task is a step of the task alone, which leaves
\* the position and result of Env::new and shutdown, the engine and all else
\* untouched, and (as no step of Env::new or shutdown changes the task) it is
\* never cancelled; Env::new is never waiting for the task: whatever the
\* task's state, its next call can return; the task completes only when the
\* container runs no more, and once the container is gone from the engine a
\* task still running eventually completes.
C19_LogIndependent ==
    /\ [][logTask' # logTask =>
             IF logTask = "none"
             THEN /\ pc = "start"
                  /\ logTask' = "running"
                  /\ Running(engine', node)
             ELSE /\ logTask = "running"
                  /\ logTask' = "ended" => ~Running(engine, node)
                  /\ UNCHANGED <<pc, cfgVars, engine, target, node, result,
                                 pendingErr, shut, polls, healthVars, nodeWait,
                                 httpVars, connVars, obsVars>>]_vars
    /\ [](~Returned => ENABLED EnvNewStep)
    /\ (logTask = "running" /\ node # 0 /\ ~Present(engine, node)) ~> (logTask = "ended")

\* Env::new returned Ok although the log task had hit unreachable!().
C19_Witness ==
    /\ pc = "done"
    /\ result = Ok
    /\ logTask = "panicked"

\* C20: when every call it awaits returns, Env::new eventually returns,
\* whatever health statuses the engine reports.
C20_Terminates == <>Returned

\* C20 as amended: when every call it awaits returns and the startup poll is
\* answered "starting" only finitely often, Env::new eventually returns; the
\* other loops are bounded: at most 21 GETs with 20 sleeps, at most 10 factory
\* calls with 10 sleeps, one 15 s wait.
C20_TerminatesUnlessStarting ==
    /\ [](/\ gets <= 21
          /\ Len(httpSleeps) <= 20
          /\ calls <= 10
          /\ Len(connSleeps) <= 10
          /\ nodeWait <= 15000)
    /\ (<>[](pc # "poll")) => <>Returned

\* Env::new returned after turns of the startup poll had been taken and both
\* retry loops had slept.
C20_Witness ==
    /\ pc = "done"
    /\ httpSleeps # <<>>
    /\ connSleeps # <<>>

====
